---- MODULE Spec2Model ----
(***************************************************************************)
(* Hydrology of src/tgen6_water.py (class TerrainGenerator): the water     *)
(* mask, the river sources, the downhill flow path, the river compositor   *)
(* and the lake expander, over a height field on a 2D grid.                *)
(*                                                                         *)
(* A cell is <<y, x>> with 0 <= y < height and 0 <= x < width, as in the   *)
(* source (elevation_map[y, x], shape = (height, width)).  A grid is a     *)
(* function from cells to integers.                                        *)
(***************************************************************************)
EXTENDS Integers, Sequences, FiniteSets, TLC

VARIABLES
    pc,             \* position of the calling script / of the running loop
    height,         \* elevation_map.shape[0]
    width,          \* elevation_map.shape[1]
    elevation_map,  \* the height field
    water_level,    \* argument of generate_water
    water_map,      \* result of generate_water
    percentile,     \* argument of find_water_sources
    water_sources,  \* result of find_water_sources (a list of cells)
    start,          \* the (y, x) find_downhill_water_path was called with
    y,              \* find_downhill_water_path: current row
    x,              \* find_downhill_water_path: current column
    path,           \* find_downhill_water_path: the list being built
    river_map,      \* generate_rivers: the grid being filled
    source_i,       \* generate_rivers: index of the source being processed
    path_i,         \* generate_rivers: index of the path cell to write next
    river_width,    \* generate_rivers: the local variable width
    seed,           \* expand_lake: the (y, x) it was called with
    lake_depth,     \* expand_lake: argument
    max_gradient,   \* expand_lake: argument
    start_elevation,\* expand_lake: elevation_map[y, x] of the seed
    queue,          \* expand_lake: the list queue
    visited,        \* expand_lake: the set visited
    river_map0,     \* history: river_map when expand_lake was entered
    expansions,     \* history: the cells whose neighbourhood loop has run
    lakes_map,      \* generate_lakes: the copy being filled
    lake_i,         \* generate_lakes: row-major index of the next cell
    lake_seeds,     \* history: the cells generate_lakes expanded a lake at
    merged_map,     \* result of generate_merged_elevation_and_river_map
    accessed,       \* history: the neighbour indices a scan has subscripted
    river_log       \* history: the writes and calls of generate_rivers

fieldVars == <<height, width, elevation_map>>

waterVars == <<water_level, water_map>>

sourceVars == <<percentile, water_sources>>

traceVars == <<start, y, x, path>>

riverVars == <<river_map, source_i, path_i, river_width>>

lakeVars == <<seed, lake_depth, max_gradient, start_elevation, queue,
              visited, river_map0, expansions>>

lakesVars == <<lakes_map, lake_i, lake_seeds>>

\* The variables of the stages that follow generate_rivers.
historyVars == <<accessed, river_log>>

afterVars == <<lakeVars, lakesVars, merged_map, historyVars>>

vars == <<pc, fieldVars, waterVars, sourceVars, traceVars, riverVars,
          afterVars>>

----------------------------------------------------------------------------
(* Bounds of the model.                                                    *)

MaxH == 3
MaxW == 3
\* The largest number of cells of a field.
MaxCells == 9
\* The largest number of cells of a field of the fair trace specification.
MaxFairCells == 6
\* The elevations of the slope fields are 0..MaxSlopeElev.
MaxSlopeElev == 5
\* The largest number of cells of a field of the river specification.
MaxRiverCells == 3
\* The water masks given to generate_rivers hold values in 0..MaxMask.
MaxMask == 2
\* The longest list of sources given to generate_rivers.
MaxSources == 2

\* Elevations of the fields of the river specification: their differences
\* lie on both sides of lake_depth = 100 and of max_gradient = 50.
RiverElevs == {0, 60, 120}

\* expand_lake(..., lake_depth=100, max_gradient=50)
LakeDepthDefault == 100
MaxGradientDefault == 50
\* river_map[ny, nx] = 2  # Mark as lake
LakeMark == 2

\* Elevations of the fields of the water, source and trace specifications;
\* they contain the 1 and the 5 of the 3x3 scenario field.
Elevs == {1, 2, 5}

\* Water levels tried: below every elevation, equal to one, between two.
Levels == {0, 1, 2, 4, 5}

\* Percentiles tried (find_water_sources defaults to 95).
Percentiles == {0, 50, 95, 100}

\* None, for a variable that holds a coordinate or a list.
None == << >>

----------------------------------------------------------------------------
(* Grids and numpy indexing.                                               *)

Cells(h, w) == (0..(h - 1)) \X (0..(w - 1))

Grids(h, w, vals) == [Cells(h, w) -> vals]

\* The elements of a list.
SeqRange(s) == {s[i] : i \in 1..Len(s)}

\* np.zeros(elevation_map.shape)
zeros(h, w) == [c \in Cells(h, w) |-> 0]

\* for dy in range(-1, 2): for dx in range(-1, 2): the scan order
OffsetsWithoutDiagonals ==
    << <<-1, 0>>, <<0, -1>>, <<0, 0>>, <<0, 1>>, <<1, 0>> >>

Offsets ==
    << <<-1, -1>>, <<-1, 0>>, <<-1, 1>>,
       << 0, -1>>, << 0, 0>>, << 0, 1>>,
       << 1, -1>>, << 1, 0>>, << 1, 1>> >>

\* 0 <= ny < elevation_map.shape[0] and 0 <= nx < elevation_map.shape[1]
InGridMissingUpper(ny, nx, h, w) == 0 <= ny /\ 0 <= nx

InGridFromMinusOne(ny, nx, h, w) ==
    -1 <= ny /\ ny < h /\ -1 <= nx /\ nx < w

InGrid(ny, nx, h, w) == 0 <= ny /\ ny < h /\ 0 <= nx /\ nx < w

\* numpy's a[i, j]: an index in -n..-1 counts from the end, anything outside
\* -n..n-1 raises IndexError.
Indexable(i, j, h, w) == -h <= i /\ i < h /\ -w <= j /\ j < w

At(a, i, j, h, w) == a[<<i % h, j % w>>]

----------------------------------------------------------------------------
(* generate_water                                                          *)

\* a[mask] = v
MaskAssign(a, mask, v) == [c \in DOMAIN a |-> IF mask[c] THEN v ELSE a[c]]

generate_water_strict(e, lvl, h, w) ==
    LET z  == zeros(h, w)
        w1 == MaskAssign(z, [c \in DOMAIN e |-> e[c] < lvl], 1)
    IN  MaskAssign(w1, [c \in DOMAIN e |-> e[c] > lvl], 0)

generate_water_inverted(e, lvl, h, w) ==
    LET z  == zeros(h, w)
        w1 == MaskAssign(z, [c \in DOMAIN e |-> e[c] >= lvl], 1)
    IN  MaskAssign(w1, [c \in DOMAIN e |-> e[c] < lvl], 0)

generate_water_above(e, lvl, h, w) ==
    LET z  == zeros(h, w)
        w1 == MaskAssign(z, [c \in DOMAIN e |-> e[c] > lvl], 1)
    IN  MaskAssign(w1, [c \in DOMAIN e |-> e[c] <= lvl], 0)

generate_water(e, lvl, h, w) ==
    LET z  == zeros(h, w)
        w1 == MaskAssign(z, [c \in DOMAIN e |-> e[c] <= lvl], 1)
    IN  MaskAssign(w1, [c \in DOMAIN e |-> e[c] > lvl], 0)

----------------------------------------------------------------------------
(* The water specification: a field is drawn, and generate_water is called *)
(* on it with any level, any number of times.                              *)

InitField ==
    /\ height \in 1..MaxH
    /\ width \in 1..MaxW
    /\ height * width <= MaxCells
    /\ elevation_map \in Grids(height, width, Elevs)

\* The variables of the calls that have not been made.
NoWater == water_level = 0 /\ water_map = << >>

NoSources == percentile = 0 /\ water_sources = << >>

NoTrace == start = None /\ y = None /\ x = None /\ path = << >>

NoRivers ==
    river_map = << >> /\ source_i = 0 /\ path_i = 0 /\ river_width = 0

NoLake ==
    /\ seed = None /\ lake_depth = 0 /\ max_gradient = 0
    /\ start_elevation = 0 /\ queue = << >> /\ visited = {}
    /\ river_map0 = << >> /\ expansions = << >>

NoLakes == lakes_map = << >> /\ lake_i = 0 /\ lake_seeds = << >>

NoMerge == merged_map = << >>

NoHistory == accessed = {} /\ river_log = << >>

NoAfter == NoLake /\ NoLakes /\ NoMerge /\ NoHistory

Unused == NoWater /\ NoSources /\ NoTrace /\ NoRivers /\ NoAfter

InitWater ==
    /\ InitField
    /\ Unused
    /\ pc = "script"

GenerateWater ==
    /\ pc \in {"script", "water"}
    /\ \E lvl \in Levels :
          /\ water_level' = lvl
          /\ water_map' = generate_water(elevation_map, lvl, height, width)
    /\ pc' = "water"
    /\ UNCHANGED <<fieldVars, sourceVars, traceVars, riverVars, afterVars>>

NextWater == GenerateWater

SpecWater == InitWater /\ [][NextWater]_vars

----------------------------------------------------------------------------
(* Claims about generate_water.                                            *)

\* The 3x3 scenario field [[5,5,5],[5,1,5],[5,5,5]].
ScenarioA == [c \in Cells(3, 3) |-> IF c = <<1, 1>> THEN 1 ELSE 5]

\* C1: after generate_water, the mask covers exactly the cells of the field,
\* every cell holds 1 if its elevation is <= water_level and 0 otherwise,
\* and on the scenario field with water_level 2 the centre cell alone is
\* water.
C1_WaterIffAtOrBelowLevel ==
    pc = "water" =>
        /\ DOMAIN water_map = Cells(height, width)
        /\ \A c \in Cells(height, width) :
              /\ water_map[c] \in {0, 1}
              /\ water_map[c] = 1 <=> elevation_map[c] <= water_level
        /\ (elevation_map = ScenarioA /\ water_level = 2) =>
              {c \in Cells(3, 3) : water_map[c] = 1} = {<<1, 1>>}

C1_Witness ==
    /\ pc = "water"
    /\ elevation_map = ScenarioA
    /\ water_level = 2
    /\ water_map[<<1, 1>>] = 1
    /\ water_map[<<0, 0>>] = 0

\* C2: when generate_water is called again on the same field with a level
\* at least as high as the previous one, every cell that was water is still
\* water.
C2_WaterMonotoneInLevel ==
    [][(pc = "water" /\ pc' = "water" /\ water_level <= water_level') =>
          \A c \in Cells(height, width) :
              water_map[c] = 1 => water_map'[c] = 1]_vars

\* A mask with land and water at a level that is not the lowest one: it is
\* reached from the masks of the lower levels.
C2_Witness ==
    /\ pc = "water"
    /\ water_level = 4
    /\ \E c \in Cells(height, width) : water_map[c] = 1
    /\ \E c \in Cells(height, width) : water_map[c] = 0

----------------------------------------------------------------------------
(* find_water_sources and is_local_maximum                                 *)

\* What a call gives: the value it returns, or the exception it raises.
Return(v) == [raised |-> FALSE, value |-> v]

Raise(exc) == [raised |-> TRUE, value |-> exc]

IndexError == "IndexError"

\* The cells in the order of np.argwhere: row by row, each row left to right.
RowMajor(h, w) == [i \in 1..(h * w) |-> <<(i - 1) \div w, (i - 1) % w>>]

\* The k-th smallest value of the flattened grid, k counted from 0.
KthSmallest(e, k) ==
    CHOOSE v \in {e[c] : c \in DOMAIN e} :
        /\ Cardinality({c \in DOMAIN e : e[c] < v}) <= k
        /\ k < Cardinality({c \in DOMAIN e : e[c] <= v})

\* np.percentile(elevation_map, p), times 100: numpy's default (linear)
\* method takes the virtual index p/100 * (n - 1) into the sorted values
\* and interpolates linearly between the two order statistics around it.
\* The result is kept as an exact integer, 100 times the threshold.
percentile100(e, p, h, w) ==
    LET n   == h * w
        pos == p * (n - 1)
        lo  == pos \div 100
        fr  == pos % 100
        hi  == IF lo + 1 < n THEN lo + 1 ELSE lo
        a   == KthSmallest(e, lo)
        b   == KthSmallest(e, hi)
    IN  100 * a + fr * (b - a)

\* is_local_maximum: the scan of the 8 neighbours from offset i on, with its
\* early return.  IndexError when an access leaves numpy's index range.
RECURSIVE LocalMaximumScan(_, _, _, _, _, _)
LocalMaximumScan(i, yy, xx, e, h, w) ==
    IF i > Len(Offsets) THEN Return(TRUE)
    ELSE LET dy == Offsets[i][1]
             dx == Offsets[i][2]
             ny == yy + dy
             nx == xx + dx
         IN  IF dy = 0 /\ dx = 0 THEN LocalMaximumScan(i + 1, yy, xx, e, h, w)
             ELSE IF ~InGrid(ny, nx, h, w)
                  THEN LocalMaximumScan(i + 1, yy, xx, e, h, w)
             ELSE IF ~Indexable(ny, nx, h, w) THEN Raise(IndexError)
             ELSE IF At(e, ny, nx, h, w) > e[<<yy, xx>>] THEN Return(FALSE)
             ELSE LocalMaximumScan(i + 1, yy, xx, e, h, w)

is_local_maximum(yy, xx, e, h, w) == LocalMaximumScan(1, yy, xx, e, h, w)

\* sources = np.argwhere(elevation_map > threshold), the threshold given
\* times 100.
AboveThresholdOrEqual(e, thr100, h, w) ==
    SelectSeq(RowMajor(h, w), LAMBDA c : 100 * e[c] >= thr100)

AboveThreshold(e, thr100, h, w) ==
    SelectSeq(RowMajor(h, w), LAMBDA c : 100 * e[c] > thr100)

\* [... for y, x in sources if keep]: the elements of s from index i on
\* whose flag is set.
RECURSIVE Comprehension(_, _, _)
Comprehension(s, keep, i) ==
    IF i > Len(s) THEN << >>
    ELSE IF keep[i] THEN <<s[i]>> \o Comprehension(s, keep, i + 1)
    ELSE Comprehension(s, keep, i + 1)

\* The list of sources, or IndexError when a call of is_local_maximum
\* raises.
find_water_sources_no_filter(e, p, h, w) ==
    Return(AboveThreshold(e, percentile100(e, p, h, w), h, w))

find_water_sources(e, p, h, w) ==
    LET threshold100 == percentile100(e, p, h, w)
        cand == AboveThreshold(e, threshold100, h, w)
        res  == [i \in 1..Len(cand) |->
                    is_local_maximum(cand[i][1], cand[i][2], e, h, w)]
    IN  IF \E i \in 1..Len(cand) : res[i].raised THEN Raise(IndexError)
        ELSE Return(Comprehension(cand,
                        [i \in 1..Len(cand) |-> res[i].value], 1))

\* np.percentile of an array without elements (line 246).  What it does
\* depends on the numpy release: it returns nan (with a warning), or it
\* raises IndexError when it indexes the last element of the empty array.
np_percentile_empty == {Return("nan"), Raise(IndexError)}

\* find_water_sources on a field without cells: when the threshold is nan,
\* elevation_map > threshold holds nowhere, np.argwhere gives no candidate
\* and the list is empty.
find_water_sources_empty ==
    {IF t.raised THEN t ELSE Return(<< >>) : t \in np_percentile_empty}

\* The results a call of find_water_sources can have.
find_water_sources_results(e, p, h, w) ==
    IF h * w = 0 THEN find_water_sources_empty
    ELSE {find_water_sources(e, p, h, w)}

----------------------------------------------------------------------------
(* The source specification: a field and a percentile are drawn, and       *)
(* find_water_sources is called.                                           *)

InitSources ==
    /\ InitField
    /\ Unused
    /\ pc = "script"

FindWaterSources ==
    /\ pc \in {"script", "water"}
    /\ \E p \in Percentiles :
          \E r \in find_water_sources_results(elevation_map, p, height,
                                              width) :
              /\ percentile' = p
              /\ water_sources' = IF r.raised THEN water_sources ELSE r.value
              /\ pc' = IF r.raised THEN "error" ELSE "sources"
    /\ UNCHANGED <<fieldVars, waterVars, traceVars, riverVars, afterVars>>

NextSources == FindWaterSources

SpecSources == InitSources /\ [][NextSources]_vars

----------------------------------------------------------------------------
(* Claims about find_water_sources.                                        *)

NoRepeats(s) == \A i, j \in 1..Len(s) : s[i] = s[j] => i = j

\* The cells of the grid at Chebyshev distance 1 from c.
Neighbours8(c, h, w) ==
    {n \in Cells(h, w) :
        /\ n # c
        /\ n[1] - c[1] \in {-1, 0, 1}
        /\ n[2] - c[2] \in {-1, 0, 1}}

\* C3: find_water_sources returns exactly the cells whose elevation is
\* strictly greater than the percentile threshold and that have no in-grid
\* 8-neighbour of strictly greater elevation, each of them once.
C3_SourcesExactlyHighLocalMaxima ==
    pc = "sources" =>
        /\ NoRepeats(water_sources)
        /\ LET thr100 ==
                  percentile100(elevation_map, percentile, height, width)
           IN  SeqRange(water_sources) =
                  {c \in Cells(height, width) :
                      /\ 100 * elevation_map[c] > thr100
                      /\ \A n \in Neighbours8(c, height, width) :
                            elevation_map[n] <= elevation_map[c]}

\* Some cell above the threshold is returned and another one above the
\* threshold is dropped because a neighbour is higher.
C3_Witness ==
    /\ pc = "sources"
    /\ water_sources # << >>
    /\ LET thr100 ==
              percentile100(elevation_map, percentile, height, width)
       IN  \E c \in Cells(height, width) :
              /\ 100 * elevation_map[c] > thr100
              /\ c \notin SeqRange(water_sources)

IsFlat(e) == \A c, d \in DOMAIN e : e[c] = e[d]

\* C4: on a flat field, find_water_sources with a percentile strictly
\* between 0 and 100 returns the empty list.
C4_FlatFieldHasNoSources ==
    (pc = "sources" /\ IsFlat(elevation_map)
        /\ 0 < percentile /\ percentile < 100) =>
            water_sources = << >>

C4_Witness ==
    /\ pc = "sources"
    /\ IsFlat(elevation_map)
    /\ height = 3
    /\ width = 3
    /\ percentile = 50
    /\ water_sources = << >>

----------------------------------------------------------------------------
(* find_downhill_water_path                                                *)

\* The for loops of lines 285-291 from offset i on: lowest and next as they
\* stand after the scan, or IndexError.  The conditions of the if are
\* evaluated left to right, so the elevation is read only for an in-grid
\* cell that is not on the path.
RECURSIVE LowestScanKeepsFirstBound(_, _, _, _, _, _, _, _, _)
LowestScanKeepsFirstBound(i, yy, xx, lowest, nxt, pth, e, h, w) ==
    IF i > Len(Offsets) THEN Return([lowest |-> lowest, next |-> nxt])
    ELSE LET ny == yy + Offsets[i][1]
             nx == xx + Offsets[i][2]
         IN  IF ~(InGrid(ny, nx, h, w) /\ <<ny, nx>> \notin SeqRange(pth))
             THEN LowestScanKeepsFirstBound(i + 1, yy, xx, lowest, nxt, pth,
                                            e, h, w)
             ELSE IF At(e, ny, nx, h, w) < lowest
                  THEN LowestScanKeepsFirstBound(i + 1, yy, xx, lowest,
                                                 <<ny, nx>>, pth, e, h, w)
             ELSE LowestScanKeepsFirstBound(i + 1, yy, xx, lowest, nxt, pth,
                                            e, h, w)

RECURSIVE LowestScanKeepsLastTie(_, _, _, _, _, _, _, _, _)
LowestScanKeepsLastTie(i, yy, xx, lowest, nxt, pth, e, h, w) ==
    IF i > Len(Offsets) THEN Return([lowest |-> lowest, next |-> nxt])
    ELSE LET ny == yy + Offsets[i][1]
             nx == xx + Offsets[i][2]
         IN  IF ~(InGrid(ny, nx, h, w) /\ <<ny, nx>> \notin SeqRange(pth))
             THEN LowestScanKeepsLastTie(i + 1, yy, xx, lowest, nxt, pth,
                                         e, h, w)
             ELSE IF At(e, ny, nx, h, w) < lowest
                     \/ (nxt # None /\ At(e, ny, nx, h, w) = lowest)
                  THEN LowestScanKeepsLastTie(i + 1, yy, xx,
                                              At(e, ny, nx, h, w),
                                              <<ny, nx>>, pth, e, h, w)
             ELSE LowestScanKeepsLastTie(i + 1, yy, xx, lowest, nxt, pth,
                                         e, h, w)

RECURSIVE LowestScan(_, _, _, _, _, _, _, _, _)
LowestScan(i, yy, xx, lowest, nxt, pth, e, h, w) ==
    IF i > Len(Offsets) THEN Return([lowest |-> lowest, next |-> nxt])
    ELSE LET ny == yy + Offsets[i][1]
             nx == xx + Offsets[i][2]
         IN  IF ~(InGrid(ny, nx, h, w) /\ <<ny, nx>> \notin SeqRange(pth))
             THEN LowestScan(i + 1, yy, xx, lowest, nxt, pth, e, h, w)
             ELSE IF ~Indexable(ny, nx, h, w) THEN Raise(IndexError)
             ELSE IF At(e, ny, nx, h, w) < lowest
                  THEN LowestScan(i + 1, yy, xx, At(e, ny, nx, h, w),
                                  <<ny, nx>>, pth, e, h, w)
             ELSE LowestScan(i + 1, yy, xx, lowest, nxt, pth, e, h, w)

BreakCondInverted(nxt, yy, xx, e, h, w) ==
    \/ nxt = None
    \/ At(e, nxt[1], nxt[2], h, w) <= At(e, yy, xx, h, w)

\* if next_y is None or elevation_map[next_y, next_x] >= elevation_map[y, x]
BreakCond(nxt, yy, xx, e, h, w) ==
    \/ nxt = None
    \/ At(e, nxt[1], nxt[2], h, w) >= At(e, yy, xx, h, w)

\* One iteration of the while loop: the cell is appended, the neighbours are
\* scanned, and the loop breaks or moves on to the next cell.
TraceIterationDoubleAppend(yy, xx, pth, e, h, w) ==
    LET p1   == Append(pth, <<yy, xx>>)
        scan == LowestScan(1, yy, xx, At(e, yy, xx, h, w), None, p1, e, h, w)
    IN  IF BreakCond(scan.value.next, yy, xx, e, h, w)
        THEN [status |-> "break", path |-> p1, y |-> yy, x |-> xx]
        ELSE [status |-> "continue", path |-> Append(p1, scan.value.next),
              y |-> scan.value.next[1], x |-> scan.value.next[2]]

TraceIterationAppendAfterBreak(yy, xx, pth, e, h, w) ==
    LET p1   == Append(pth, <<yy, xx>>)
        scan == LowestScan(1, yy, xx, At(e, yy, xx, h, w), None, p1, e, h, w)
    IN  IF BreakCond(scan.value.next, yy, xx, e, h, w)
        THEN [status |-> "break", path |-> pth, y |-> yy, x |-> xx]
        ELSE [status |-> "continue", path |-> p1,
              y |-> scan.value.next[1], x |-> scan.value.next[2]]

TraceIteration(yy, xx, pth, e, h, w) ==
    LET p1   == Append(pth, <<yy, xx>>)
        scan == LowestScan(1, yy, xx, At(e, yy, xx, h, w), None, p1, e, h, w)
    IN  IF scan.raised
        THEN [status |-> "raised", path |-> p1, y |-> yy, x |-> xx]
        ELSE IF BreakCond(scan.value.next, yy, xx, e, h, w)
        THEN [status |-> "break", path |-> p1, y |-> yy, x |-> xx]
        ELSE [status |-> "continue", path |-> p1,
              y |-> scan.value.next[1], x |-> scan.value.next[2]]

\* The whole call: the loop run from (yy, xx) with the path pth so far.
RECURSIVE TraceLoop(_, _, _, _, _, _)
TraceLoop(yy, xx, pth, e, h, w) ==
    LET r == TraceIteration(yy, xx, pth, e, h, w)
    IN  IF r.status = "raised" THEN Raise(IndexError)
        ELSE IF r.status = "break" THEN Return(r.path)
        ELSE TraceLoop(r.y, r.x, r.path, e, h, w)

find_downhill_water_path(yy, xx, e, h, w) == TraceLoop(yy, xx, << >>, e, h, w)

----------------------------------------------------------------------------
(* The trace specification: a field and a start cell are drawn, and        *)
(* find_downhill_water_path runs from it, one loop iteration per step.     *)

InitTrace ==
    /\ InitField
    /\ NoWater
    /\ NoSources
    /\ NoRivers
    /\ NoAfter
    /\ start \in Cells(height, width)
    /\ y = start[1]
    /\ x = start[2]
    /\ path = << >>
    /\ pc = "trace"

TraceStep ==
    /\ pc = "trace"
    /\ LET r == TraceIteration(y, x, path, elevation_map, height, width)
       IN  /\ path' = r.path
           /\ y' = r.y
           /\ x' = r.x
           /\ pc' = CASE r.status = "raised" -> "error"
                      [] r.status = "break"  -> "traced"
                      [] OTHER               -> "trace"
    /\ UNCHANGED <<fieldVars, waterVars, sourceVars, start, riverVars,
                   afterVars>>

NextTrace == TraceStep

SpecTrace == InitTrace /\ [][NextTrace]_vars

\* The same on the fields of at most MaxFairCells cells, with fairness: the
\* loop is sequential code, so an iteration that can run does run.
InitTraceFair ==
    /\ InitTrace
    /\ height * width <= MaxFairCells

SpecTraceFair == InitTraceFair /\ [][NextTrace]_vars /\ WF_vars(NextTrace)

----------------------------------------------------------------------------
(* Claims about find_downhill_water_path.                                  *)

\* The neighbours the claim lets the trace move to from cell c when the
\* cells of seen are on the path: in the grid, not in seen, strictly
\* lower than c.
Admissible(c, seen, e, h, w) ==
    {n \in Neighbours8(c, h, w) : n \notin seen /\ e[n] < e[c]}

\* n is a lowest admissible neighbour of c.
IsSteepest(n, c, seen, e, h, w) ==
    /\ n \in Admissible(c, seen, e, h, w)
    /\ \A m \in Admissible(c, seen, e, h, w) : e[n] <= e[m]

Prefix(s, n) == SubSeq(s, 1, n)

\* C5: the path never holds a coordinate twice and never has more than
\* width * height entries, while it is built and when it is returned.
C5_PathHasNoRepeatsAndIsBounded ==
    /\ NoRepeats(path)
    /\ Len(path) <= width * height
    /\ SeqRange(path) \subseteq Cells(height, width)

\* A returned path that walked over a plateau neighbour: it has at least
\* three cells, and a cell next to the first one is as high as the first.
C5_Witness ==
    /\ pc = "traced"
    /\ Len(path) >= 3
    /\ \E n \in Neighbours8(path[1], height, width) :
          elevation_map[n] = elevation_map[path[1]]

\* C6: from every start cell of every field the loop eventually returns.
C6_TraceTerminates == <>(pc = "traced")

\* The trace has returned from a field where the start cell had a neighbour
\* of its own elevation (a plateau or a tie).
C6_Witness ==
    /\ pc = "traced"
    /\ Len(path) >= 2
    /\ \E n \in Neighbours8(start, height, width) :
          elevation_map[n] = elevation_map[start]
    /\ \E m, n \in Neighbours8(start, height, width) :
          m # n /\ elevation_map[m] = elevation_map[n]
                /\ elevation_map[m] < elevation_map[start]

\* C7: every cell of the path after the first, and the cell the loop is
\* about to append, is a lowest admissible neighbour of the cell before it
\* (in the grid, adjacent, not on the path so far, strictly lower); and the
\* trace has stopped exactly when the last cell has no admissible neighbour.
C7_EachStepIsSteepestDescent ==
    /\ \A i \in 1..(Len(path) - 1) :
          IsSteepest(path[i + 1], path[i], SeqRange(Prefix(path, i)),
                     elevation_map, height, width)
    /\ (pc = "trace" /\ path # << >>) =>
          IsSteepest(<<y, x>>, path[Len(path)], SeqRange(path),
                     elevation_map, height, width)
    /\ pc = "traced" =>
          Admissible(path[Len(path)], SeqRange(path),
                     elevation_map, height, width) = {}

\* A returned path whose first step had to choose between a lower and an
\* even lower neighbour.
C7_Witness ==
    /\ pc = "traced"
    /\ Len(path) >= 2
    /\ \E n \in Admissible(path[1], {path[1]}, elevation_map, height, width) :
          elevation_map[n] > elevation_map[path[2]]

\* C8: the path is never empty once the loop has run, its first element is
\* the start cell, and when the start cell has no in-grid 8-neighbour of
\* strictly lower elevation the returned path is [start].
C8_PathStartsAtStart ==
    /\ pc = "traced" => path # << >>
    /\ path # << >> => path[1] = start
    /\ (pc = "traced" /\ \A n \in Neighbours8(start, height, width) :
                            elevation_map[n] >= elevation_map[start]) =>
          path = <<start>>

\* The path [start] returned for a start cell that is a minimum among
\* neighbours, one of which is on its level.
C8_Witness ==
    /\ pc = "traced"
    /\ path = <<start>>
    /\ height * width > 1
    /\ \E n \in Neighbours8(start, height, width) :
          elevation_map[n] = elevation_map[start]

\* The cell m comes no later than the cell n in the scan of a
\* neighbourhood that holds both: row offsets -1, 0, +1 outermost, column
\* offsets -1, 0, +1 innermost.
ScannedFirst(m, n) == m[1] < n[1] \/ (m[1] = n[1] /\ m[2] <= n[2])

\* n is the first, in the order of the scan, of the lowest admissible
\* neighbours of c.
IsFirstSteepest(n, c, seen, e, h, w) ==
    /\ IsSteepest(n, c, seen, e, h, w)
    /\ \A m \in Admissible(c, seen, e, h, w) :
          e[m] = e[n] => ScannedFirst(n, m)

\* C24: every cell of the path after the first, and the cell the loop is
\* about to append, is the first in the order of the scan among the lowest
\* admissible neighbours of the cell before it; and the path a trace has
\* returned is the path another trace from the same start on the same
\* field returns.
C24_TiesGoToFirstInScanOrder ==
    /\ \A i \in 1..(Len(path) - 1) :
          IsFirstSteepest(path[i + 1], path[i], SeqRange(Prefix(path, i)),
                          elevation_map, height, width)
    /\ (pc = "trace" /\ path # << >>) =>
          IsFirstSteepest(<<y, x>>, path[Len(path)], SeqRange(path),
                          elevation_map, height, width)
    /\ pc = "traced" =>
          path = find_downhill_water_path(start[1], start[2], elevation_map,
                                          height, width).value

\* A returned path whose first step had three lowest admissible neighbours
\* to choose from, in two rows, and took the first of the upper row.
C24_Witness ==
    /\ pc = "traced"
    /\ Len(path) >= 2
    /\ LET ties == {m \in Admissible(path[1], {path[1]}, elevation_map,
                                     height, width) :
                       elevation_map[m] = elevation_map[path[2]]}
       IN  /\ Cardinality(ties) >= 3
           /\ \E m \in ties : m[1] > path[2][1]
           /\ \E m \in ties : m[1] = path[2][1] /\ m[2] > path[2][2]

----------------------------------------------------------------------------
(* The slope specification: the trace on the fields that fall strictly     *)
(* along every row and every column away from a corner peak.               *)

\* The rows of w cells that fall strictly from left to right.
FallingRows(w, vals) ==
    {r \in [0..(w - 1) -> vals] : \A j \in 0..(w - 2) : r[j] > r[j + 1]}

\* The fields whose peak is the corner <<0, 0>>.
SlopesFromOrigin(h, w, vals) ==
    {[c \in Cells(h, w) |-> rows[c[1]][c[2]]] :
        rows \in {rr \in [0..(h - 1) -> FallingRows(w, vals)] :
                    \A i \in 0..(h - 2) : \A j \in 0..(w - 1) :
                        rr[i][j] > rr[i + 1][j]}}

\* The field g mirrored top to bottom (fy) and left to right (fx).
Mirrored(g, h, w, fy, fx) ==
    [c \in Cells(h, w) |->
        g[<<IF fy THEN h - 1 - c[1] ELSE c[1],
            IF fx THEN w - 1 - c[2] ELSE c[2]>>]]

InitSlope ==
    /\ height \in 1..MaxH
    /\ width \in 1..MaxW
    /\ height * width <= MaxCells
    /\ \E g \in SlopesFromOrigin(height, width, 0..MaxSlopeElev) :
          \E fy, fx \in BOOLEAN :
              elevation_map = Mirrored(g, height, width, fy, fx)
    /\ NoWater
    /\ NoSources
    /\ NoRivers
    /\ NoAfter
    /\ start \in Cells(height, width)
    /\ y = start[1]
    /\ x = start[2]
    /\ path = << >>
    /\ pc = "trace"

SpecSlope == InitSlope /\ [][NextTrace]_vars

----------------------------------------------------------------------------
(* Claim about the trace on a slope.                                       *)

Corners(h, w) == {<<0, 0>>, <<0, w - 1>>, <<h - 1, 0>>, <<h - 1, w - 1>>}

Opposite(c, h, w) == <<h - 1 - c[1], w - 1 - c[2]>>

Abs(n) == IF n < 0 THEN -n ELSE n

Max(a, b) == IF a >= b THEN a ELSE b

Min(a, b) == IF a <= b THEN a ELSE b

Sign(n) == IF n > 0 THEN 1 ELSE IF n < 0 THEN -1 ELSE 0

Chebyshev(c, d) == Max(Abs(c[1] - d[1]), Abs(c[2] - d[2]))

\* The field falls strictly along every row and column away from corner c.
FallsFrom(c, e, h, w) ==
    \A a, b \in Cells(h, w) :
        (/\ Abs(a[1] - b[1]) + Abs(a[2] - b[2]) = 1
         /\ Abs(b[1] - c[1]) + Abs(b[2] - c[2]) >
                Abs(a[1] - c[1]) + Abs(a[2] - c[2])) => e[a] > e[b]

\* The cells of the diagonal that leaves corner c towards the opposite one.
Diagonal(c, h, w) ==
    LET o == Opposite(c, h, w)
    IN  {<<c[1] + i * Sign(o[1] - c[1]), c[2] + i * Sign(o[2] - c[2])>> :
            i \in 0..(Min(h, w) - 1)}

\* C9: on a field that falls strictly along every row and column from a
\* corner peak, the trace started at the peak ends at the opposite corner,
\* holds every cell of the diagonal that leaves the peak exactly once, and
\* makes as many moves as the Chebyshev distance between the two corners
\* (the returned list has one entry more than moves).
C9_SlopeTraceFollowsDiagonal ==
    (/\ pc = "traced"
     /\ start \in Corners(height, width)
     /\ FallsFrom(start, elevation_map, height, width)) =>
        /\ path[1] = start
        /\ path[Len(path)] = Opposite(start, height, width)
        /\ Len(path) - 1 = Chebyshev(start, Opposite(start, height, width))
        /\ \A d \in Diagonal(start, height, width) :
              Cardinality({i \in 1..Len(path) : path[i] = d}) = 1
        /\ height = width => SeqRange(path) = Diagonal(start, height, width)

\* The trace down the diagonal of a 3x3 slope from the bottom right corner.
C9_Witness ==
    /\ pc = "traced"
    /\ height = 3
    /\ width = 3
    /\ start = <<2, 2>>
    /\ FallsFrom(start, elevation_map, height, width)
    /\ path = << <<2, 2>>, <<1, 1>>, <<0, 0>> >>

----------------------------------------------------------------------------
(* expand_lake                                                             *)

\* if river_map[ny, nx] == 0: river_map[ny, nx] = 2  (lines 390-391)
MarkLakeAlways(rm, n) == [rm EXCEPT ![n] = LakeMark]

MarkLake(rm, n) == IF rm[n] = 0 THEN [rm EXCEPT ![n] = LakeMark] ELSE rm

\* elevation_difference <= lake_depth and
\* elevation_difference >= -max_gradient  (line 389)
WithinBandStrict(diff, depth, grad) == diff < depth /\ diff > -grad

WithinBand(diff, depth, grad) == diff <= depth /\ diff >= -grad

\* elevation_difference = elevation_map[ny, nx] - start_elevation (line 388),
\* for the neighbour (ny, nx) of the popped cell (cy, cx).
elevation_difference_from_current(e, ny, nx, cy, cx, elev0, h, w) ==
    At(e, ny, nx, h, w) - At(e, cy, cx, h, w)

elevation_difference(e, ny, nx, cy, cx, elev0, h, w) ==
    At(e, ny, nx, h, w) - elev0

RECURSIVE LakeNeighboursEnqueueMarked(_, _, _, _, _, _, _, _, _, _, _)
LakeNeighboursEnqueueMarked(i, cy, cx, q, rm, elev0, e, h, w, depth, grad) ==
    IF i > Len(Offsets) THEN Return([queue |-> q, river_map |-> rm])
    ELSE LET ny == cy + Offsets[i][1]
             nx == cx + Offsets[i][2]
         IN  IF ~InGrid(ny, nx, h, w)
             THEN LakeNeighboursEnqueueMarked(i + 1, cy, cx, q, rm, elev0,
                                              e, h, w, depth, grad)
             ELSE IF ~Indexable(ny, nx, h, w) THEN Raise(IndexError)
             ELSE LET diff == elevation_difference(e, ny, nx, cy, cx, elev0,
                                                   h, w)
                      n    == <<ny % h, nx % w>>
                  IN  IF WithinBand(diff, depth, grad) /\ rm[n] = 0
                      THEN LakeNeighboursEnqueueMarked(i + 1, cy, cx,
                              Append(q, <<ny, nx>>),
                              MarkLake(rm, n),
                              elev0, e, h, w, depth, grad)
                      ELSE LakeNeighboursEnqueueMarked(i + 1, cy, cx, q, rm,
                              elev0, e, h, w, depth, grad)

\* The for loops of lines 384-392 from offset i on, for the popped cell
\* (cy, cx): the queue and the river map as they stand after them.
RECURSIVE LakeNeighbours(_, _, _, _, _, _, _, _, _, _, _)
LakeNeighbours(i, cy, cx, q, rm, elev0, e, h, w, depth, grad) ==
    IF i > Len(Offsets) THEN Return([queue |-> q, river_map |-> rm])
    ELSE LET ny == cy + Offsets[i][1]
             nx == cx + Offsets[i][2]
         IN  IF ~InGrid(ny, nx, h, w)
             THEN LakeNeighbours(i + 1, cy, cx, q, rm, elev0,
                                 e, h, w, depth, grad)
             ELSE IF ~Indexable(ny, nx, h, w) THEN Raise(IndexError)
             ELSE LET diff == elevation_difference(e, ny, nx, cy, cx, elev0,
                                                   h, w)
                      n    == <<ny % h, nx % w>>
                  IN  IF WithinBand(diff, depth, grad)
                      THEN LakeNeighbours(i + 1, cy, cx,
                              Append(q, <<ny, nx>>),
                              MarkLake(rm, n),
                              elev0, e, h, w, depth, grad)
                      ELSE LakeNeighbours(i + 1, cy, cx, q, rm,
                              elev0, e, h, w, depth, grad)

\* One iteration of while queue without the test of lines 381-382.
LakeIterationRevisits(q, seen, rm, elev0, e, h, w, depth, grad) ==
    LET c == Head(q)
        r == LakeNeighbours(1, c[1], c[2], Tail(q), rm, elev0, e, h, w,
                            depth, grad)
    IN  IF r.raised THEN r
        ELSE Return([queue |-> r.value.queue, visited |-> seen \cup {c},
                     river_map |-> r.value.river_map])

\* One iteration of while queue: the head is popped and, unless it was
\* visited before, marked visited and its neighbours are handled.
LakeIteration(q, seen, rm, elev0, e, h, w, depth, grad) ==
    LET c == Head(q)
    IN  IF c \in seen
        THEN Return([queue |-> Tail(q), visited |-> seen,
                     river_map |-> rm])
        ELSE LET r == LakeNeighbours(1, c[1], c[2], Tail(q), rm,
                                     elev0, e, h, w, depth, grad)
             IN  IF r.raised THEN r
                 ELSE Return([queue |-> r.value.queue,
                              visited |-> seen \cup {c},
                              river_map |-> r.value.river_map])

\* The while loop run to its end: the river map it leaves.
RECURSIVE LakeLoop(_, _, _, _, _, _, _, _, _)
LakeLoop(q, seen, rm, elev0, e, h, w, depth, grad) ==
    IF q = << >> THEN Return(rm)
    ELSE LET r == LakeIteration(q, seen, rm, elev0,
                                e, h, w, depth, grad)
         IN  IF r.raised THEN r
             ELSE LakeLoop(r.value.queue, r.value.visited, r.value.river_map,
                           elev0, e, h, w, depth, grad)

\* The while loop run to its end: the set visited and the river map it
\* leaves.
RECURSIVE LakeVisits(_, _, _, _, _, _, _, _, _)
LakeVisits(q, seen, rm, elev0, e, h, w, depth, grad) ==
    IF q = << >> THEN Return([visited |-> seen, river_map |-> rm])
    ELSE LET r == LakeIteration(q, seen, rm, elev0,
                                e, h, w, depth, grad)
         IN  IF r.raised THEN r
             ELSE LakeVisits(r.value.queue, r.value.visited,
                             r.value.river_map, elev0, e, h, w, depth, grad)

\* expand_lake(y, x, elevation_map, river_map, lake_depth, max_gradient):
\* the river map after the call, which changes it in place.
expand_lake(yy, xx, e, rm, h, w, depth, grad) ==
    LakeLoop(<< <<yy, xx>> >>, {}, rm, At(e, yy, xx, h, w), e, h, w,
             depth, grad)

----------------------------------------------------------------------------
(* generate_rivers                                                         *)

\* The body of for y, x in path (lines 315-317) for the cell c.
WalkCellAddsOne(rw, rm, c, wm) ==
    LET w1 == IF wm[c] >= 1 THEN rw + 1 ELSE rw
    IN  [river_width |-> w1, river_map |-> [rm EXCEPT ![c] = w1]]

WalkCellResetsOnLand(rw, rm, c, wm) ==
    LET w1 == IF wm[c] >= 1 THEN rw + wm[c] ELSE 1
    IN  [river_width |-> w1, river_map |-> [rm EXCEPT ![c] = w1]]

WalkCellKeepsEarlier(rw, rm, c, wm) ==
    LET w1 == IF wm[c] >= 1 THEN rw + wm[c] ELSE rw
    IN  [river_width |-> w1,
         river_map |-> IF rm[c] = 0 THEN [rm EXCEPT ![c] = w1] ELSE rm]

WalkCellKeepsLarger(rw, rm, c, wm) ==
    LET w1 == IF wm[c] >= 1 THEN rw + wm[c] ELSE rw
    IN  [river_width |-> w1,
         river_map |-> IF rm[c] < w1 THEN [rm EXCEPT ![c] = w1] ELSE rm]

WalkCellWidthFromZero(rw, rm, c, wm) ==
    LET w1 == IF wm[c] >= 1 THEN rw + wm[c] ELSE rw
    IN  [river_width |-> w1, river_map |-> [rm EXCEPT ![c] = w1 - 1]]

WalkCell(rw, rm, c, wm) ==
    LET w1 == IF wm[c] >= 1 THEN rw + wm[c] ELSE rw
    IN  [river_width |-> w1, river_map |-> [rm EXCEPT ![c] = w1]]

\* y, x = path[-1]  (line 318)
FirstOf(pth) == pth[1]

LastOf(pth) == pth[Len(pth)]

\* for y, x in path (lines 314-317) from index j on: the river map as the
\* loop leaves it.
RECURSIVE WalkLoop(_, _, _, _, _)
WalkLoop(j, rw, rm, pth, wm) ==
    IF j > Len(pth) THEN rm
    ELSE LET r == WalkCell(rw, rm, pth[j], wm)
         IN  WalkLoop(j + 1, r.river_width, r.river_map, pth, wm)

\* for y, x in water_sources (lines 311-319) from index i on: the river map
\* as the loop leaves it, or the exception a call raises.
RECURSIVE SourceLoop(_, _, _, _, _, _, _)
SourceLoop(i, rm, e, wm, srcs, h, w) ==
    IF i > Len(srcs) THEN Return(rm)
    ELSE LET p == find_downhill_water_path(srcs[i][1], srcs[i][2], e, h, w)
         IN  IF p.raised THEN p
             ELSE LET c == LastOf(p.value)
                      r == expand_lake(c[1], c[2], e,
                                       WalkLoop(1, 1, rm, p.value, wm),
                                       h, w, LakeDepthDefault,
                                       MaxGradientDefault)
                  IN  IF r.raised THEN r
                      ELSE SourceLoop(i + 1, r.value, e, wm, srcs, h, w)

\* generate_rivers(elevation_map, water_map, water_sources), run to its
\* return.
generate_rivers(e, wm, srcs, h, w) ==
    SourceLoop(1, zeros(h, w), e, wm, srcs, h, w)

\* The lists of at most n cells.
Lists(S, n) == UNION {[1..k -> S] : k \in 0..n}

\* generate_rivers is entered with a field, a water mask and a list of
\* sources; river_map = np.zeros(elevation_map.shape).
Init ==
    /\ height \in 1..MaxH
    /\ width \in 1..MaxW
    /\ height * width <= MaxRiverCells
    /\ elevation_map \in Grids(height, width, RiverElevs)
    /\ water_level = 0
    /\ water_map \in Grids(height, width, 0..MaxMask)
    /\ percentile = 0
    /\ water_sources \in Lists(Cells(height, width), MaxSources)
    /\ NoTrace
    /\ river_map = zeros(height, width)
    /\ source_i = 1
    /\ path_i = 0
    /\ river_width = 0
    /\ NoAfter
    /\ pc = "rivers"

\* for y, x in water_sources: path = find_downhill_water_path(...); width = 1
RiverNextSource ==
    /\ pc = "rivers"
    /\ source_i <= Len(water_sources)
    /\ LET s == water_sources[source_i]
           r == find_downhill_water_path(s[1], s[2], elevation_map,
                                         height, width)
       IN  /\ start' = s
           /\ y' = s[1]
           /\ x' = s[2]
           /\ path' = IF r.raised THEN path ELSE r.value
           /\ pc' = IF r.raised THEN "error" ELSE "walk"
    /\ river_width' = 1
    /\ path_i' = 1
    /\ UNCHANGED <<fieldVars, waterVars, sourceVars, river_map, source_i,
                   afterVars>>

\* for y, x in path: one cell
RiverWalkStep ==
    /\ pc = "walk"
    /\ path_i <= Len(path)
    /\ LET r == WalkCell(river_width, river_map, path[path_i], water_map)
       IN  /\ river_width' = r.river_width
           /\ river_map' = r.river_map
    /\ y' = path[path_i][1]
    /\ x' = path[path_i][2]
    /\ path_i' = path_i + 1
    /\ river_log' = Append(river_log, [op |-> "write", source |-> source_i,
                                       cell |-> path[path_i]])
    /\ UNCHANGED <<pc, fieldVars, waterVars, sourceVars, start, path,
                   source_i, lakeVars, lakesVars, merged_map, accessed>>

\* y, x = path[-1]; self.expand_lake(y, x, elevation_map, river_map)
RiverExpandLake ==
    /\ pc = "walk"
    /\ path_i > Len(path)
    /\ LET c == LastOf(path)
           r == expand_lake(c[1], c[2], elevation_map, river_map,
                            height, width, LakeDepthDefault,
                            MaxGradientDefault)
       IN  /\ y' = c[1]
           /\ x' = c[2]
           /\ river_map' = IF r.raised THEN river_map ELSE r.value
           /\ pc' = IF r.raised THEN "error" ELSE "rivers"
           /\ river_log' = Append(river_log,
                                  [op |-> "expand_lake",
                                   source |-> source_i, cell |-> c])
    /\ source_i' = source_i + 1
    /\ UNCHANGED <<fieldVars, waterVars, sourceVars, start, path, path_i,
                   river_width, lakeVars, lakesVars, merged_map, accessed>>

\* return river_map
RiverReturn ==
    /\ pc = "rivers"
    /\ source_i > Len(water_sources)
    /\ pc' = "rivers_done"
    /\ UNCHANGED <<fieldVars, waterVars, sourceVars, traceVars, riverVars,
                   afterVars>>

Next ==
    \/ RiverNextSource
    \/ RiverWalkStep
    \/ RiverExpandLake
    \/ RiverReturn

Spec == Init /\ [][Next]_vars

----------------------------------------------------------------------------
(* Claim about the widths generate_rivers writes.                          *)

\* The sum of the mask values of the first n cells of the list pth that the
\* mask marks as water (value >= 1).
RECURSIVE WaterSum(_, _, _)
WaterSum(pth, wm, n) ==
    IF n = 0 THEN 0
    ELSE WaterSum(pth, wm, n - 1)
            + (IF wm[pth[n]] >= 1 THEN wm[pth[n]] ELSE 0)

\* C10: for each source the width counter is 1 when the walk starts, and
\* the value written at the j-th cell of the path is 1 plus the sum of the
\* mask values of the water cells among the first j cells; the written
\* values stand until the next source is taken up.
C10_WidthIsOnePlusWaterOnPath ==
    /\ (pc = "walk" /\ path_i = 1) => river_width = 1
    /\ pc = "walk" =>
          /\ river_width = 1 + WaterSum(path, water_map, path_i - 1)
          /\ \A j \in 1..(path_i - 1) :
                river_map[path[j]] = 1 + WaterSum(path, water_map, j)
    /\ (pc \in {"rivers", "rivers_done"} /\ path # << >>) =>
          \A j \in 1..Len(path) :
              river_map[path[j]] = 1 + WaterSum(path, water_map, j)

\* A walk over three cells has written 1 on a land cell, then 3 on a cell
\* whose mask value is 2, then 4 on a cell whose mask value is 1.
C10_Witness ==
    /\ pc = "walk"
    /\ Len(path) = 3
    /\ path_i = 4
    /\ water_map[path[1]] = 0
    /\ water_map[path[2]] = 2
    /\ water_map[path[3]] = 1
    /\ river_map[path[1]] = 1
    /\ river_map[path[2]] = 3
    /\ river_map[path[3]] = 4

\* The river map is nondecreasing along the first n cells of the list pth.
Nondecreasing(pth, n) ==
    \A j \in 1..(n - 1) : river_map[pth[j]] <= river_map[pth[j + 1]]

\* The flow path of the i-th source.
PathOfSource(i) ==
    find_downhill_water_path(water_sources[i][1], water_sources[i][2],
                             elevation_map, height, width).value

\* C20, as stated: after generate_rivers has returned, the river map is
\* nondecreasing along the flow path of every source.
C20_EveryPathIsNondecreasingAtReturn ==
    pc = "rivers_done" =>
        \A i \in 1..Len(water_sources) :
            Nondecreasing(PathOfSource(i), Len(PathOfSource(i)))

\* C20, amended: the values a walk has written are nondecreasing in path
\* order while the walk runs and until the next source is taken up, so that
\* after generate_rivers has returned the river map is nondecreasing along
\* the flow path of the last source.
C20_WalkWritesNondecreasingWidths ==
    /\ pc = "walk" => Nondecreasing(path, path_i - 1)
    /\ (pc \in {"rivers", "rivers_done"} /\ path # << >>) =>
          Nondecreasing(path, Len(path))
    /\ (pc = "rivers_done" /\ water_sources # << >>) =>
          Nondecreasing(PathOfSource(Len(water_sources)),
                        Len(PathOfSource(Len(water_sources))))

\* generate_rivers has returned after two walks: the second ended on a cell
\* of the first and wrote a smaller width there, so that the river map
\* falls along the path of the first source while it rises along the path
\* of the second.
C20_Witness ==
    /\ pc = "rivers_done"
    /\ Len(water_sources) = 2
    /\ ~Nondecreasing(PathOfSource(1), Len(PathOfSource(1)))
    /\ Len(path) >= 2
    /\ river_map[path[1]] < river_map[path[Len(path)]]

\* The index of the cell c in the list pth, which holds it once.
IndexIn(pth, c) == CHOOSE j \in 1..Len(pth) : pth[j] = c

\* The sources whose flow path holds the cell c.
SourcesThrough(c) ==
    {i \in 1..Len(water_sources) : c \in SeqRange(PathOfSource(i))}

\* The last of them in the order of the list.
LastThrough(c) ==
    CHOOSE i \in SourcesThrough(c) : \A k \in SourcesThrough(c) : k <= i

\* C22: after generate_rivers has returned, every cell that lies on the
\* flow path of at least one source holds the width the walk of the last
\* such source, in the order of the list, wrote there: 1 plus the water of
\* that path up to the cell.  What an earlier walk or an earlier lake
\* expansion left in the cell does not enter the value.
C22_LastWriterWins ==
    pc = "rivers_done" =>
        \A c \in Cells(height, width) :
            SourcesThrough(c) # {} =>
                LET pth == PathOfSource(LastThrough(c))
                IN  river_map[c] = 1 + WaterSum(pth, water_map, IndexIn(pth, c))

\* generate_rivers has returned after two walks.  The first source is its
\* own terminus a, and the lake expanded there reaches its neighbour c;
\* the second source is c, a water cell of mask value 2, and its path runs
\* on to a.  Now c holds 3, not the lake mark, and a holds the width of the
\* second walk, which is larger than the one the first walk wrote.
C22_Witness ==
    /\ pc = "rivers_done"
    /\ Len(water_sources) = 2
    /\ Len(PathOfSource(1)) = 1
    /\ LET a == water_sources[1]
           c == water_sources[2]
       IN  /\ PathOfSource(2) = <<c, a>>
           /\ elevation_map[c] - elevation_map[a] <= LakeDepthDefault
           /\ water_map[c] = 2
           /\ river_map[c] = 3
           /\ river_map[a] = 3 + water_map[a]
           /\ river_map[a] > 1 + water_map[a]

\* The writes of the walk of source i over the first n cells of its path.
WritesOf(i, pth, n) ==
    [j \in 1..n |-> [op |-> "write", source |-> i, cell |-> pth[j]]]

\* What the claim lets generate_rivers have done when it is through with
\* the first n sources: for each in turn, the writes along its path and
\* then one call of expand_lake at the last cell of the path.
RECURSIVE OrderedLog(_)
OrderedLog(n) ==
    IF n = 0 THEN << >>
    ELSE LET pth == PathOfSource(n)
         IN  OrderedLog(n - 1) \o WritesOf(n, pth, Len(pth))
                \o <<[op |-> "expand_lake", source |-> n,
                      cell |-> pth[Len(pth)]]>>

\* C23: the writes and the expand_lake calls of generate_rivers come in
\* this order: for each source, in the order of the list, the widths of all
\* cells of its path in path order, then exactly one call of expand_lake,
\* at the last cell of that path, and only then the first write of the next
\* source.
C23_WalkThenLakePerSource ==
    /\ pc \in {"rivers", "rivers_done"} =>
          river_log = OrderedLog(source_i - 1)
    /\ pc = "walk" =>
          river_log = OrderedLog(source_i - 1)
                         \o WritesOf(source_i, path, path_i - 1)

\* generate_rivers has returned after two walks, the first over at least
\* two cells: its writes are followed by the call of expand_lake at its
\* last cell, which differs from the source, and then by the first write
\* of the second source.
C23_Witness ==
    /\ pc = "rivers_done"
    /\ Len(water_sources) = 2
    /\ LET n == Len(PathOfSource(1))
       IN  /\ n >= 2
           /\ river_log[n].op = "write"
           /\ river_log[n + 1].op = "expand_lake"
           /\ river_log[n + 1].cell = PathOfSource(1)[n]
           /\ river_log[n + 1].cell # water_sources[1]
           /\ river_log[n + 2].op = "write"
           /\ river_log[n + 2].source = 2
           /\ river_log[Len(river_log)].op = "expand_lake"

\* The list s in the opposite order.
Reverse(s) == [i \in 1..Len(s) |-> s[Len(s) + 1 - i]]

\* The river map generate_rivers returns for the same field and mask when
\* it is given the sources in the opposite order.
ReversedRun ==
    generate_rivers(elevation_map, water_map, Reverse(water_sources),
                    height, width).value

\* C25: the river map generate_rivers has returned is the one a second run
\* on the same arguments returns, and it can differ from the river map of
\* the run with the sources in the opposite order, but only at cells that
\* lie on the flow paths of two sources of the list: there the walk that
\* comes last decides.  (That the two do differ for some field, mask and
\* list is what the witness shows.)
C25_SourceOrderDecidesSharedCells ==
    pc = "rivers_done" =>
        /\ river_map = generate_rivers(elevation_map, water_map,
                                       water_sources, height, width).value
        /\ \A c \in Cells(height, width) :
              river_map[c] # ReversedRun[c] =>
                  Cardinality(SourcesThrough(c)) >= 2

\* generate_rivers has returned a river map that differs from the one it
\* returns for the same two sources in the opposite order.
C25_Witness ==
    /\ pc = "rivers_done"
    /\ Len(water_sources) = 2
    /\ water_sources[1] # water_sources[2]
    /\ river_map # ReversedRun

----------------------------------------------------------------------------
(* The lake specification: expand_lake is called on a field and a river    *)
(* map with a seed and a (lake_depth, max_gradient) pair, and its while     *)
(* loop runs one iteration per step.                                       *)

\* The largest number of cells of a field of the lake specification.
MaxLakeCells == 4

\* The values of the river map expand_lake is entered with: no river, or a
\* river of width 3.
LakeRiverVals == {0, 3}

\* The <<lake_depth, max_gradient>> pairs tried: the defaults of expand_lake,
\* the pair generate_lakes passes, the pair of the flat-basin scenario, and
\* a negative lake_depth and a negative max_gradient.
LakeConfigs ==
    { <<100, 50>>, <<50, 50>>, <<0, 0>>, <<-10, 100>>, <<100, -10>> }

\* Lines 376-378 have run: start_elevation = elevation_map[y, x],
\* queue = [(y, x)], visited = set().
InitLake ==
    /\ height \in 1..MaxH
    /\ width \in 1..MaxW
    /\ height * width <= MaxLakeCells
    /\ elevation_map \in Grids(height, width, RiverElevs)
    /\ NoWater /\ NoSources /\ NoTrace
    /\ river_map \in Grids(height, width, LakeRiverVals)
    /\ source_i = 0 /\ path_i = 0 /\ river_width = 0
    /\ seed \in Cells(height, width)
    /\ \E cfg \in LakeConfigs : lake_depth = cfg[1] /\ max_gradient = cfg[2]
    /\ start_elevation = At(elevation_map, seed[1], seed[2], height, width)
    /\ queue = <<seed>>
    /\ visited = {}
    /\ river_map0 = river_map
    /\ expansions = << >>
    /\ NoLakes /\ NoMerge /\ NoHistory
    /\ pc = "lake"

\* One iteration of while queue (lines 379-392).
LakeStep ==
    /\ pc = "lake"
    /\ queue # << >>
    /\ LET r == LakeIteration(queue, visited, river_map, start_elevation,
                              elevation_map, height, width, lake_depth,
                              max_gradient)
       IN  IF r.raised
           THEN /\ pc' = "error"
                /\ UNCHANGED <<queue, visited, river_map, expansions>>
           ELSE /\ pc' = pc
                /\ queue' = r.value.queue
                /\ visited' = r.value.visited
                /\ river_map' = r.value.river_map
                /\ expansions' = IF Head(queue) \in visited THEN expansions
                                 ELSE Append(expansions, Head(queue))
    /\ UNCHANGED <<fieldVars, waterVars, sourceVars, traceVars, source_i,
                   path_i, river_width, seed, lake_depth, max_gradient,
                   start_elevation, river_map0, lakesVars, merged_map,
                   historyVars>>

\* while queue: the queue is empty and expand_lake returns (None).
LakeReturn ==
    /\ pc = "lake"
    /\ queue = << >>
    /\ pc' = "lake_done"
    /\ UNCHANGED <<fieldVars, waterVars, sourceVars, traceVars, riverVars,
                   afterVars>>

NextLake == LakeStep \/ LakeReturn

SpecLake == InitLake /\ [][NextLake]_vars

\* The largest number of cells of a field of the fair lake specification.
MaxFairLakeCells == 3

InitLakeFair == InitLake /\ height * width <= MaxFairLakeCells

\* expand_lake is not interrupted: the loop keeps taking iterations while
\* it can.
SpecLakeFair == InitLakeFair /\ [][NextLake]_vars /\ WF_vars(NextLake)

----------------------------------------------------------------------------
(* Claims about expand_lake.                                               *)

\* The cells of the river map that differ from the map expand_lake was
\* entered with.
Changed == {c \in Cells(height, width) : river_map[c] # river_map0[c]}

\* The difference the claims compare with the two thresholds.
SeedDiff(c) == elevation_map[c] - elevation_map[seed]

InBand(c) == SeedDiff(c) <= lake_depth /\ SeedDiff(c) >= -max_gradient

\* C11: throughout a call of expand_lake, a cell of the river map that was
\* nonzero when the call started keeps its value, and a cell that differs
\* from its value at the start was 0 then and holds the lake mark 2 now.
C11_LakeOnlyMarksZeroCells ==
    pc \in {"lake", "lake_done"} =>
        /\ \A c \in Cells(height, width) :
              river_map0[c] # 0 => river_map[c] = river_map0[c]
        /\ \A c \in Changed : river_map0[c] = 0 /\ river_map[c] = LakeMark

\* A call has returned after it admitted a river cell of width 3, which kept
\* its value, and marked a cell that was 0.
C11_Witness ==
    /\ pc = "lake_done"
    /\ \E c \in visited : river_map0[c] = 3 /\ river_map[c] = 3
    /\ \E c \in visited : river_map0[c] = 0 /\ river_map[c] = LakeMark

\* The cells expand_lake has put on its queue so far, the seed included.
Enqueued == SeqRange(queue) \cup visited

\* C12: throughout a call of expand_lake, every in-grid 8-neighbour of an
\* expanded cell whose elevation minus the seed's elevation lies in
\* [-max_gradient, lake_depth] has been admitted (it is marked or held a
\* river already, and it has been put on the queue); and every cell other
\* than the seed that was put on the queue, and every cell that was marked,
\* has its difference from the seed in that interval and is an 8-neighbour
\* of an expanded cell.
C12_AdmissionIsRelativeToSeed ==
    pc \in {"lake", "lake_done"} =>
        /\ \A c \in visited : \A n \in Neighbours8(c, height, width) :
              InBand(n) => n \in Enqueued /\ river_map[n] # 0
        /\ \A n \in (Enqueued \cup Changed) \ {seed} :
              /\ InBand(n)
              /\ \E c \in visited : n \in Neighbours8(c, height, width)
        /\ seed \in Changed => InBand(seed)

\* A call has returned after it expanded a cell c other than the seed that
\* has a neighbour n within the interval of c's elevation but outside the
\* interval of the seed's: n was neither marked nor expanded.
C12_Witness ==
    /\ pc = "lake_done"
    /\ \E c \in visited \ {seed} : \E n \in Neighbours8(c, height, width) :
          /\ elevation_map[n] - elevation_map[c] <= lake_depth
          /\ elevation_map[n] - elevation_map[c] >= -max_gradient
          /\ ~InBand(n)
          /\ n \notin visited
          /\ river_map[n] = 0

\* C13: every call of expand_lake returns, and during a call no cell has
\* its neighbourhood expanded twice, so that the number of expansions is at
\* most width * height.
C13_LakeTerminatesExpandingOnce ==
    /\ <>(pc = "lake_done")
    /\ [](/\ NoRepeats(expansions)
          /\ Len(expansions) <= height * width)

\* Every cell of a field of three cells has been expanded, and the queue
\* still holds a cell that was expanded before: it was put on the queue
\* more than once.
C13_Witness ==
    /\ pc = "lake"
    /\ height * width = 3
    /\ Len(expansions) = 3
    /\ \E i \in 1..Len(queue) : queue[i] \in visited
    /\ Len(queue) >= 2
    /\ queue[1] = queue[2]

\* The cells reachable from the cells of S by moves between 8-neighbours
\* that stay inside the set ok.
RECURSIVE Connected(_, _)
Connected(S, ok) ==
    LET T == S \cup {n \in ok : \E c \in S :
                                   n \in Neighbours8(c, height, width)}
    IN  IF T = S THEN S ELSE Connected(T, ok)

\* The 8-connected set of cells around the seed that have its elevation.
Basin ==
    Connected({seed}, {c \in Cells(height, width) :
                          elevation_map[c] = elevation_map[seed]})

\* C14: when expand_lake is called with lake_depth = 0 and max_gradient = 0
\* at a seed whose elevation is the minimum of the field, on a river map
\* that is 0 everywhere, then after it returns the river map holds the lake
\* mark 2 on the 8-connected set of cells around the seed that have the
\* seed's elevation, and 0 on every other cell.
C14_FlatBasinIsFilledExactly ==
    (/\ pc = "lake_done"
     /\ lake_depth = 0
     /\ max_gradient = 0
     /\ \A c \in Cells(height, width) :
           elevation_map[seed] <= elevation_map[c]
     /\ river_map0 = zeros(height, width))
    => river_map = [c \in Cells(height, width) |->
                       IF c \in Basin THEN LakeMark ELSE 0]

\* Such a call has returned on a field where a cell has the seed's
\* elevation without being connected to it, and a higher cell lies between:
\* the seed is marked, the other two cells are not.
C14_Witness ==
    /\ pc = "lake_done"
    /\ lake_depth = 0
    /\ max_gradient = 0
    /\ river_map0 = zeros(height, width)
    /\ \A c \in Cells(height, width) :
          elevation_map[seed] <= elevation_map[c]
    /\ river_map[seed] = LakeMark
    /\ \E c \in Cells(height, width) \ Basin :
          elevation_map[c] = elevation_map[seed] /\ river_map[c] = 0
    /\ \E c \in Cells(height, width) :
          elevation_map[c] > elevation_map[seed] /\ river_map[c] = 0

\* C18, as stated for expand_lake: a call with a negative lake_depth or a
\* negative max_gradient does not return normally and changes no cell of
\* the river map.
C18_NegativeLakeConfigIsRejected ==
    (lake_depth < 0 \/ max_gradient < 0) =>
        /\ pc # "lake_done"
        /\ river_map = river_map0

----------------------------------------------------------------------------
(* generate_lakes                                                          *)

\* if elevation_map[ny, nx] < min_elevation: return False  (line 357)
LowerThanOrEqual(a, b) == a <= b

LowerThan(a, b) == a < b

\* is_local_minimum: the scan of the neighbourhood from offset i on, with
\* its early return; the offset (0, 0) is not skipped.
RECURSIVE LocalMinimumScan(_, _, _, _, _, _, _)
LocalMinimumScan(i, yy, xx, min_elevation, e, h, w) ==
    IF i > Len(Offsets) THEN Return(TRUE)
    ELSE LET ny == yy + Offsets[i][1]
             nx == xx + Offsets[i][2]
         IN  IF ~InGrid(ny, nx, h, w)
             THEN LocalMinimumScan(i + 1, yy, xx, min_elevation, e, h, w)
             ELSE IF ~Indexable(ny, nx, h, w) THEN Raise(IndexError)
             ELSE IF LowerThan(At(e, ny, nx, h, w), min_elevation)
                  THEN Return(FALSE)
             ELSE LocalMinimumScan(i + 1, yy, xx, min_elevation, e, h, w)

is_local_minimum(yy, xx, e, h, w) ==
    LocalMinimumScan(1, yy, xx, At(e, yy, xx, h, w), e, h, w)

\* self.expand_lake(y, x, elevation_map, lakes_map, lake_depth=50,
\*                  max_gradient=50)
LakesLakeDepth == 50
LakesMaxGradient == 50

\* lakes_map = np.copy(river_map): the new array.  A call hands back the
\* arrays it holds: an array that is not written is handed back as it was.
np_copy(a) == a

\* The same body when lakes_map is the array river_map itself and not a
\* copy of it.
LakesCellInPlace(c, lm, rm, e, h, w) ==
    LET m == is_local_minimum(c[1], c[2], e, h, w)
    IN  IF m.raised THEN m
        ELSE IF ~m.value
             THEN Return([lakes_map |-> lm, river_map |-> lm,
                          seeded |-> FALSE])
        ELSE LET r == expand_lake(c[1], c[2], e, lm, h, w, LakesLakeDepth,
                                  LakesMaxGradient)
             IN  IF r.raised THEN r
                 ELSE Return([lakes_map |-> r.value, river_map |-> r.value,
                              seeded |-> TRUE])

\* The body of the loops of lines 334-337 for the cell c, where lm is the
\* copy made at line 333 and rm the river map that was passed in.
LakesCell(c, lm, rm, e, h, w) ==
    LET m == is_local_minimum(c[1], c[2], e, h, w)
    IN  IF m.raised THEN m
        ELSE IF ~m.value
             THEN Return([lakes_map |-> lm, river_map |-> rm,
                          seeded |-> FALSE])
        ELSE LET r == expand_lake(c[1], c[2], e, lm, h, w, LakesLakeDepth,
                                  LakesMaxGradient)
             IN  IF r.raised THEN r
                 ELSE Return([lakes_map |-> r.value, river_map |-> rm,
                              seeded |-> TRUE])

----------------------------------------------------------------------------
(* The lakes specification: generate_lakes is called on a field and a      *)
(* river map, and its loops run one cell per step.                         *)

\* The largest number of cells of a field of the lakes specification.
MaxLakesCells == 6

\* Elevations of the fields of the lakes specification: their differences
\* lie on both sides of lake_depth = 50 and of max_gradient = 50.
LakesElevs == {0, 40, 120}

\* The river maps given to generate_lakes hold a river of width 3 on at most
\* MaxLakesRiverCells cells and 0 elsewhere.
MaxLakesRiverCells == 1

LakesRiverMaps(h, w) ==
    {[c \in Cells(h, w) |-> IF c \in S THEN 3 ELSE 0] :
        S \in {T \in SUBSET Cells(h, w) :
                   Cardinality(T) <= MaxLakesRiverCells}}

InitLakes ==
    /\ height \in 1..MaxH
    /\ width \in 1..MaxW
    /\ height * width <= MaxLakesCells
    /\ elevation_map \in Grids(height, width, LakesElevs)
    /\ NoWater /\ NoSources /\ NoTrace
    /\ river_map \in LakesRiverMaps(height, width)
    /\ source_i = 0 /\ path_i = 0 /\ river_width = 0
    /\ NoAfter
    /\ pc = "lakes_call"

\* lakes_map = np.copy(river_map)
GenerateLakesCopy ==
    /\ pc \in {"lakes_call", "rivers_done"}
    /\ lakes_map' = np_copy(river_map)
    /\ lake_i' = 1
    /\ pc' = "lakes"
    /\ UNCHANGED <<fieldVars, waterVars, sourceVars, traceVars, riverVars,
                   lakeVars, lake_seeds, merged_map, historyVars>>

\* for y ...: for x ...: one cell, in row-major order
GenerateLakesCell ==
    /\ pc = "lakes"
    /\ lake_i <= height * width
    /\ LET c == RowMajor(height, width)[lake_i]
           r == LakesCell(c, lakes_map, river_map, elevation_map, height,
                          width)
       IN  IF r.raised
           THEN /\ pc' = "error"
                /\ UNCHANGED <<lakes_map, river_map, lake_seeds>>
           ELSE /\ pc' = pc
                /\ lakes_map' = r.value.lakes_map
                /\ river_map' = r.value.river_map
                /\ lake_seeds' = IF r.value.seeded
                                 THEN Append(lake_seeds, c) ELSE lake_seeds
    /\ lake_i' = lake_i + 1
    /\ UNCHANGED <<fieldVars, waterVars, sourceVars, traceVars, source_i,
                   path_i, river_width, lakeVars, merged_map,
                   historyVars>>

\* return lakes_map
GenerateLakesReturn ==
    /\ pc = "lakes"
    /\ lake_i > height * width
    /\ pc' = "lakes_done"
    /\ UNCHANGED <<fieldVars, waterVars, sourceVars, traceVars, riverVars,
                   afterVars>>

NextLakes == GenerateLakesCopy \/ GenerateLakesCell \/ GenerateLakesReturn

SpecLakes == InitLakes /\ [][NextLakes]_vars

(* Claim about the cells generate_lakes seeds a lake at.                   *)

\* Every 8-neighbour of c is strictly higher than c.
StrictLocalMinimum(c) ==
    \A n \in Neighbours8(c, height, width) :
        elevation_map[n] > elevation_map[c]

\* No 8-neighbour of c is strictly lower than c.
NoLowerNeighbour(c) ==
    \A n \in Neighbours8(c, height, width) :
        elevation_map[n] >= elevation_map[c]

\* The cells the loops of generate_lakes have handled.
Handled == {RowMajor(height, width)[i] : i \in 1..(lake_i - 1)}

\* C15, as stated: the cells generate_lakes has called expand_lake at are
\* the handled cells that are strict local minima of the field.
C15_SeedsAreStrictLocalMinima ==
    pc \in {"lakes", "lakes_done"} =>
        SeqRange(lake_seeds) = {c \in Handled : StrictLocalMinimum(c)}

\* C15, amended: the cells generate_lakes has called expand_lake at are the
\* handled cells that have no strictly lower 8-neighbour, each once and in
\* row-major order; a cell of a plateau with no lower neighbour is one.
C15_SeedsHaveNoLowerNeighbour ==
    pc \in {"lakes", "lakes_done"} =>
        lake_seeds = SelectSeq(SubSeq(RowMajor(height, width), 1, lake_i - 1),
                               LAMBDA c : NoLowerNeighbour(c))

\* generate_lakes has returned after it seeded a lake at a cell that has a
\* neighbour of its own elevation, and at a cell whose neighbours are all
\* higher, and after it passed over a cell with a lower neighbour.
C15_Witness ==
    /\ pc = "lakes_done"
    /\ \E c \in SeqRange(lake_seeds) : ~StrictLocalMinimum(c)
    /\ \E c \in SeqRange(lake_seeds) :
          StrictLocalMinimum(c) /\ Neighbours8(c, height, width) # {}
    /\ \E c \in Cells(height, width) : c \notin SeqRange(lake_seeds)

----------------------------------------------------------------------------
(* generate_merged_elevation_and_river_map                                 *)

\* if river_map[y, x] > 0  (line 410)
OverlaidAboveLakeMark(v) == v > LakeMark

Overlaid(v) == v > 0

\* The loops of lines 408-411 from the row-major index i on: merged_map as
\* they leave it.
RECURSIVE MergeLoop(_, _, _, _, _)
MergeLoop(i, merged, rm, h, w) ==
    IF i > h * w THEN merged
    ELSE LET c == RowMajor(h, w)[i]
         IN  MergeLoop(i + 1,
                       IF Overlaid(rm[c]) THEN [merged EXCEPT ![c] = rm[c]]
                       ELSE merged,
                       rm, h, w)

\* Without the copy of line 407 (merged_map = elevation_map) the writes of
\* line 411 land in the elevation map as well.
generate_merged_in_place(e, rm, h, w) ==
    LET m == MergeLoop(1, e, rm, h, w)
    IN  [merged_map |-> m, elevation_map |-> m]

\* The call hands back merged_map, and the elevation map as the call leaves
\* it: merged_map is a copy (line 407), so the elevation map is not written.
generate_merged_elevation_and_river_map(e, rm, h, w) ==
    LET m == MergeLoop(1, np_copy(e), rm, h, w)
    IN  [merged_map |-> m, elevation_map |-> e]

----------------------------------------------------------------------------
(* The merge specification: generate_merged_elevation_and_river_map is     *)
(* called on a field and a river map.                                      *)

\* The largest number of cells of a field of the merge specification.
MaxMergeCells == 4

\* The values of the river maps given to the merge: no river, the lake mark,
\* a river of width 3.
MergeRiverVals == {0, 2, 3}

InitMerge ==
    /\ height \in 1..MaxH
    /\ width \in 1..MaxW
    /\ height * width <= MaxMergeCells
    /\ elevation_map \in Grids(height, width, RiverElevs)
    /\ NoWater /\ NoSources /\ NoTrace
    /\ river_map \in Grids(height, width, MergeRiverVals)
    /\ source_i = 0 /\ path_i = 0 /\ river_width = 0
    /\ NoAfter
    /\ pc = "merge_call"

Merge ==
    /\ pc \in {"merge_call", "lakes_done"}
    /\ LET r == generate_merged_elevation_and_river_map(
                    elevation_map, river_map, height, width)
       IN  /\ merged_map' = r.merged_map
           /\ elevation_map' = r.elevation_map
    /\ pc' = "merged"
    /\ UNCHANGED <<height, width, waterVars, sourceVars, traceVars,
                   riverVars, lakeVars, lakesVars, historyVars>>

NextMerge == Merge

SpecMerge == InitMerge /\ [][NextMerge]_vars

\* C16: the grid the merge returns holds the river map's value at every
\* cell where the river map is nonzero, and the elevation at every other
\* cell.
C16_MergeOverlaysNonzeroCells ==
    pc = "merged" =>
        /\ DOMAIN merged_map = Cells(height, width)
        /\ \A c \in Cells(height, width) :
              merged_map[c] = IF river_map[c] # 0 THEN river_map[c]
                              ELSE elevation_map[c]

\* The merge has returned a grid with a river cell, a lake cell and a cell
\* that kept an elevation other than 0.
C16_Witness ==
    /\ pc = "merged"
    /\ \E c \in Cells(height, width) :
          river_map[c] = 3 /\ merged_map[c] = 3 /\ elevation_map[c] # 3
    /\ \E c \in Cells(height, width) :
          river_map[c] = LakeMark /\ merged_map[c] = LakeMark
    /\ \E c \in Cells(height, width) :
          river_map[c] = 0 /\ merged_map[c] = 120

----------------------------------------------------------------------------
(* The script specification: the calls of src/tgen6_example.py, lines      *)
(* 19-24, on one field: generate_water, find_water_sources,                *)
(* generate_rivers, generate_lakes and the merge, each fed the results of  *)
(* the calls before it.                                                    *)

\* The largest number of cells of a field of the script specification.
MaxScriptCells == 4

InitScript ==
    /\ height \in 1..MaxH
    /\ width \in 1..MaxW
    /\ height * width <= MaxScriptCells
    /\ elevation_map \in Grids(height, width, Elevs)
    /\ Unused
    /\ pc = "script"

\* generate_rivers is entered with the results of the two calls before it
\* (line 22 of the script, after lines 19 and 20):
\* river_map = np.zeros(elevation_map.shape)
GenerateRiversEnter ==
    /\ pc = "sources"
    /\ DOMAIN water_map = Cells(height, width)
    /\ river_map' = zeros(height, width)
    /\ source_i' = 1
    /\ pc' = "rivers"
    /\ UNCHANGED <<fieldVars, waterVars, sourceVars, traceVars, path_i,
                   river_width, afterVars>>

NextScript ==
    \/ GenerateWater
    \/ FindWaterSources
    \/ GenerateRiversEnter
    \/ RiverNextSource
    \/ RiverWalkStep
    \/ RiverExpandLake
    \/ RiverReturn
    \/ GenerateLakesCopy
    \/ GenerateLakesCell
    \/ GenerateLakesReturn
    \/ Merge

SpecScript == InitScript /\ [][NextScript]_vars

\* C17: no step of generate_water, find_water_sources, generate_rivers (with
\* the find_downhill_water_path and expand_lake calls it makes),
\* generate_lakes or the merge changes the elevation field or its shape, and
\* no step of generate_rivers changes the water mask or the list of sources.
C17_InputsAreNotChanged ==
    [][/\ elevation_map' = elevation_map
       /\ height' = height
       /\ width' = width
       /\ pc \in {"sources", "rivers", "walk"} =>
             /\ water_map' = water_map
             /\ water_sources' = water_sources]_vars

\* The script has run to its end on a field with a source and a water cell:
\* rivers and lakes were written, into the river map and the merged map,
\* and the merged map differs from the field.
C17_Witness ==
    /\ pc = "merged"
    /\ water_sources # << >>
    /\ \E c \in Cells(height, width) : water_map[c] = 1
    /\ \E c \in Cells(height, width) : river_map[c] > LakeMark
    /\ \E c \in Cells(height, width) : merged_map[c] # elevation_map[c]
    /\ lakes_map = river_map

----------------------------------------------------------------------------
(* The degenerate specification: the calls of the script on a field with   *)
(* height 0 or width 0.                                                    *)

InitDegenerate ==
    /\ height \in 0..MaxH
    /\ width \in 0..MaxW
    /\ height * width = 0
    /\ elevation_map \in Grids(height, width, Elevs)
    /\ Unused
    /\ pc = "script"

\* The calls of the script; on a field without cells there is no source to
\* walk from and no cell to seed a lake at, so the loops of generate_rivers
\* and generate_lakes take no iteration.
NextDegenerate ==
    \/ GenerateWater
    \/ FindWaterSources
    \/ GenerateRiversEnter
    \/ RiverReturn
    \/ GenerateLakesCopy
    \/ GenerateLakesReturn
    \/ Merge

SpecDegenerate == InitDegenerate /\ [][NextDegenerate]_vars

\* C19, as stated: on a field with width 0 or height 0 no call ends in an
\* error, and the water mask, the list of sources, the river map, the lakes
\* map and the merged map are empty.
C19_DegenerateGridsGiveEmptyResults ==
    (height = 0 \/ width = 0) =>
        /\ pc # "error"
        /\ DOMAIN water_map = {}
        /\ water_sources = << >>
        /\ DOMAIN river_map = {}
        /\ DOMAIN lakes_map = {}
        /\ DOMAIN merged_map = {}

----------------------------------------------------------------------------
(* The neighbour indices the four scans subscript the elevation map with.  *)

\* is_local_maximum (lines 225-232) from offset i on: the (ny, nx) of the
\* reads elevation_map[ny, nx], up to the read that makes it return False.
RECURSIVE LocalMaximumAccesses(_, _, _, _, _, _)
LocalMaximumAccesses(i, yy, xx, e, h, w) ==
    IF i > Len(Offsets) THEN {}
    ELSE LET dy == Offsets[i][1]
             dx == Offsets[i][2]
             ny == yy + dy
             nx == xx + dx
         IN  IF (dy = 0 /\ dx = 0) \/ ~InGrid(ny, nx, h, w)
             THEN LocalMaximumAccesses(i + 1, yy, xx, e, h, w)
             ELSE IF ~Indexable(ny, nx, h, w) THEN {<<ny, nx>>}
             ELSE IF At(e, ny, nx, h, w) > e[<<yy, xx>>] THEN {<<ny, nx>>}
             ELSE {<<ny, nx>>}
                     \cup LocalMaximumAccesses(i + 1, yy, xx, e, h, w)

\* is_local_minimum (lines 353-358) from offset i on, likewise.
RECURSIVE LocalMinimumAccesses(_, _, _, _, _, _)
LocalMinimumAccesses(i, yy, xx, e, h, w) ==
    IF i > Len(Offsets) THEN {}
    ELSE LET ny == yy + Offsets[i][1]
             nx == xx + Offsets[i][2]
         IN  IF ~InGrid(ny, nx, h, w)
             THEN LocalMinimumAccesses(i + 1, yy, xx, e, h, w)
             ELSE IF ~Indexable(ny, nx, h, w) THEN {<<ny, nx>>}
             ELSE IF LowerThan(At(e, ny, nx, h, w), e[<<yy, xx>>])
                  THEN {<<ny, nx>>}
             ELSE {<<ny, nx>>}
                     \cup LocalMinimumAccesses(i + 1, yy, xx, e, h, w)

\* find_downhill_water_path (lines 285-291), one scan around (y, x) with
\* the cells of pth on the path: elevation_map[ny, nx] is read for every
\* offset that passes the first two conditions of line 288, up to a read
\* that raises.
RECURSIVE LowestScanAccesses(_, _, _, _, _, _)
LowestScanAccesses(i, yy, xx, pth, h, w) ==
    IF i > Len(Offsets) THEN {}
    ELSE LET ny == yy + Offsets[i][1]
             nx == xx + Offsets[i][2]
         IN  IF ~(InGrid(ny, nx, h, w) /\ <<ny, nx>> \notin SeqRange(pth))
             THEN LowestScanAccesses(i + 1, yy, xx, pth, h, w)
             ELSE IF ~Indexable(ny, nx, h, w) THEN {<<ny, nx>>}
             ELSE {<<ny, nx>>} \cup LowestScanAccesses(i + 1, yy, xx, pth, h, w)

\* expand_lake (lines 384-388), the neighbourhood of one popped cell:
\* elevation_map[ny, nx] is read for every offset that passes line 387, up
\* to a read that raises.
RECURSIVE LakeNeighbourAccesses(_, _, _, _, _)
LakeNeighbourAccesses(i, cy, cx, h, w) ==
    IF i > Len(Offsets) THEN {}
    ELSE LET ny == cy + Offsets[i][1]
             nx == cx + Offsets[i][2]
         IN  IF ~InGrid(ny, nx, h, w)
             THEN LakeNeighbourAccesses(i + 1, cy, cx, h, w)
             ELSE IF ~Indexable(ny, nx, h, w) THEN {<<ny, nx>>}
             ELSE {<<ny, nx>>} \cup LakeNeighbourAccesses(i + 1, cy, cx, h, w)

----------------------------------------------------------------------------
(* The access specification: a field and a cell (y, x) of it are drawn,    *)
(* and one of the four neighbourhood scans is run around the cell.         *)

\* The largest number of cells of a field of the access specification.
MaxAccessCells == 6

InitAccess ==
    /\ height \in 1..MaxH
    /\ width \in 1..MaxW
    /\ height * width <= MaxAccessCells
    /\ elevation_map \in Grids(height, width, Elevs)
    /\ NoWater /\ NoSources /\ NoRivers /\ NoAfter
    /\ start \in Cells(height, width)
    /\ y = start[1]
    /\ x = start[2]
    /\ path = << >>
    /\ pc = "scan"

\* is_local_maximum(y, x, elevation_map)
ScanLocalMaximum ==
    /\ pc = "scan"
    /\ accessed' = LocalMaximumAccesses(1, y, x, elevation_map, height, width)
    /\ pc' = "maximum_scanned"
    /\ UNCHANGED <<fieldVars, waterVars, sourceVars, traceVars, riverVars,
                   lakeVars, lakesVars, merged_map, river_log>>

\* is_local_minimum(y, x, elevation_map)
ScanLocalMinimum ==
    /\ pc = "scan"
    /\ accessed' = LocalMinimumAccesses(1, y, x, elevation_map, height, width)
    /\ pc' = "minimum_scanned"
    /\ UNCHANGED <<fieldVars, waterVars, sourceVars, traceVars, riverVars,
                   lakeVars, lakesVars, merged_map, river_log>>

\* One scan of find_downhill_water_path around (y, x): the path holds
\* (y, x), alone or after the neighbour the trace came from.
ScanLowest ==
    /\ pc = "scan"
    /\ \E pth \in {<<start>>}
                    \cup {<<n, start>> : n \in Neighbours8(start, height, width)} :
          /\ path' = pth
          /\ accessed' = LowestScanAccesses(1, y, x, pth, height, width)
    /\ pc' = "lowest_scanned"
    /\ UNCHANGED <<fieldVars, waterVars, sourceVars, start, y, x, riverVars,
                   lakeVars, lakesVars, merged_map, river_log>>

\* The neighbourhood loops of expand_lake for the popped cell (y, x).
ScanLake ==
    /\ pc = "scan"
    /\ accessed' = LakeNeighbourAccesses(1, y, x, height, width)
    /\ pc' = "lake_scanned"
    /\ UNCHANGED <<fieldVars, waterVars, sourceVars, traceVars, riverVars,
                   lakeVars, lakesVars, merged_map, river_log>>

NextAccess == ScanLocalMaximum \/ ScanLocalMinimum \/ ScanLowest \/ ScanLake

SpecAccess == InitAccess /\ [][NextAccess]_vars

\* The cell c and its 8-neighbours in the grid.
Neighbourhood(c) == {c} \cup Neighbours8(c, height, width)

\* C21: every index a scan of is_local_maximum, is_local_minimum,
\* find_downhill_water_path or expand_lake subscripts the elevation map
\* with is a coordinate of the grid (0 <= row < height, 0 <= column <
\* width) at distance at most 1 from the scanned cell, so that no access
\* wraps to the opposite edge; the scans without an early return read the
\* whole in-grid neighbourhood (the trace: less the cells on the path).
C21_NeighbourAccessesStayInGrid ==
    /\ accessed \subseteq Cells(height, width)
    /\ pc # "scan" => accessed \subseteq Neighbourhood(start)
    /\ pc = "maximum_scanned" => start \notin accessed
    /\ pc = "lowest_scanned" =>
          accessed = Neighbourhood(start) \ SeqRange(path)
    /\ pc = "lake_scanned" => accessed = Neighbourhood(start)

\* The lake scan around the corner (0, 0) of a field with three columns has
\* read the cell and its in-grid neighbours, and no cell of the last
\* column, which is where the index -1 would land.
C21_Witness ==
    /\ pc = "lake_scanned"
    /\ start = <<0, 0>>
    /\ width = 3
    /\ height = 2
    /\ accessed = {<<0, 0>>, <<0, 1>>, <<1, 0>>, <<1, 1>>}


----------------------------------------------------------------------------
(* Claim about the last cell of a flow path.                               *)

\* C26: elevations strictly decrease along the path, while it is built and
\* when it is returned; the last cell of a returned path has no in-grid
\* 8-neighbour of strictly lower elevation, so is_local_minimum is True for
\* it, which is the test generate_lakes seeds a lake by.
C26_PathDescendsToALakeSeed ==
    /\ \A i \in 1..(Len(path) - 1) :
          elevation_map[path[i + 1]] < elevation_map[path[i]]
    /\ pc = "traced" =>
          LET c == LastOf(path)
          IN  /\ NoLowerNeighbour(c)
              /\ is_local_minimum(c[1], c[2], elevation_map, height,
                                  width) = Return(TRUE)

\* A returned path of at least three cells whose last cell is not the start
\* and has a neighbour of its own elevation that is not on the path.
C26_Witness ==
    /\ pc = "traced"
    /\ Len(path) >= 3
    /\ \E n \in Neighbours8(LastOf(path), height, width) :
          /\ n \notin SeqRange(path)
          /\ elevation_map[n] = elevation_map[LastOf(path)]


----------------------------------------------------------------------------
(* The rivers-and-lakes specification: generate_rivers runs as in the      *)
(* river specification, and generate_lakes is then called on the field and *)
(* the river map it returned (lines 22 and 23 of the script).              *)

NextRiversLakes ==
    \/ RiverNextSource
    \/ RiverWalkStep
    \/ RiverExpandLake
    \/ RiverReturn
    \/ GenerateLakesCopy
    \/ GenerateLakesCell
    \/ GenerateLakesReturn

SpecRiversLakes == Init /\ [][NextRiversLakes]_vars

\* The grid that is being written: river_map in generate_rivers, the copy
\* lakes_map in generate_lakes.
RiverGrid == IF pc \in {"lakes", "lakes_done"} THEN lakes_map ELSE river_map

\* C27: no step of generate_rivers or of the generate_lakes call after it
\* turns a nonzero cell of the grid it writes back to 0 (the copy starts
\* from the river map, so this holds across the two calls), and from the
\* return of generate_rivers on every cell of the flow path of every source,
\* the source cell included, is at least 1.
C27_NonzeroCellsStayNonzero ==
    [][/\ \A c \in Cells(height, width) :
             RiverGrid[c] # 0 => RiverGrid'[c] # 0
       /\ pc' \in {"rivers_done", "lakes", "lakes_done"} =>
             \A i \in 1..Len(water_sources) :
                 /\ RiverGrid'[water_sources[i]] >= 1
                 /\ \A c \in SeqRange(PathOfSource(i)) :
                        RiverGrid'[c] >= 1]_vars

\* generate_lakes has returned a grid with more nonzero cells than the
\* river map it was given, and in generate_rivers the walk of a later
\* source wrote, after an expand_lake call, a cell that no walk had written
\* and no lake had been seeded at before.
C27_Witness ==
    /\ pc = "lakes_done"
    /\ \E c \in Cells(height, width) : river_map[c] = 0 /\ lakes_map[c] # 0
    /\ \E i \in 1..Len(river_log) :
          /\ river_log[i].op = "expand_lake"
          /\ \E j \in (i + 1)..Len(river_log) :
                /\ river_log[j].op = "write"
                /\ river_log[j].cell # river_log[i].cell
                /\ river_log[j].cell \notin
                      {river_log[k].cell : k \in 1..i}
                /\ river_map[river_log[j].cell] >= 1


----------------------------------------------------------------------------
(* Claim about the cells expand_lake expands on different river maps.      *)

\* A second call of expand_lake with the same seed, field and limits on
\* the river map rm2, run to its end.
OtherLake(rm2) ==
    LakeVisits(<<seed>>, {}, rm2, start_elevation, elevation_map, height,
               width, lake_depth, max_gradient).value

\* C28: when expand_lake has returned, a call with the same seed, field and
\* limits on the river map of zeros has visited the same set of cells, and
\* of the cells that were 0 in this call's river map it has marked the same
\* ones (so any two calls on different river maps agree with each other);
\* and at every iteration the queue and the set visited that the iteration
\* leaves are the same whatever river map it is run on.
C28_LakeCellsDoNotDependOnRiverMap ==
    /\ pc = "lake_done" =>
          LET other == OtherLake(zeros(height, width))
          IN  /\ other.visited = visited
              /\ \A c \in Cells(height, width) :
                    river_map0[c] = 0 => other.river_map[c] = river_map[c]
    /\ (pc = "lake" /\ queue # << >>) =>
          LET r1 == LakeIteration(queue, visited, river_map,
                                  start_elevation, elevation_map, height,
                                  width, lake_depth, max_gradient).value
          IN  \A rm2 \in Grids(height, width, LakeRiverVals) :
                  LET r2 == LakeIteration(queue, visited, rm2,
                                          start_elevation, elevation_map,
                                          height, width, lake_depth,
                                          max_gradient).value
                  IN  r1.queue = r2.queue /\ r1.visited = r2.visited

\* expand_lake has returned after it visited a river cell other than the
\* seed and marked a cell that is not next to the seed.
C28_Witness ==
    /\ pc = "lake_done"
    /\ \E c \in visited : c # seed /\ river_map0[c] # 0
    /\ \E d \in Changed : d \notin Neighbourhood(seed)


----------------------------------------------------------------------------
(* Claim about the river map generate_lakes is given.                      *)

\* C29: no step of generate_lakes changes the river map it was given, and
\* the grid it builds and returns holds the value of the river map at every
\* cell where the river map is nonzero and 0 or the lake mark 2 at every
\* other cell.
C29_LakesAreWrittenToACopy ==
    [][/\ river_map' = river_map
       /\ pc' \in {"lakes", "lakes_done"} =>
             \A c \in Cells(height, width) :
                 IF river_map[c] # 0
                 THEN lakes_map'[c] = river_map[c]
                 ELSE lakes_map'[c] \in {0, LakeMark}]_vars

\* generate_lakes has returned a grid that keeps a river cell of the river
\* map, holds a lake mark where the river map holds 0, and holds 0 at
\* another cell.
C29_Witness ==
    /\ pc = "lakes_done"
    /\ \E c \in Cells(height, width) :
          river_map[c] > LakeMark /\ lakes_map[c] = river_map[c]
    /\ \E c \in Cells(height, width) :
          river_map[c] = 0 /\ lakes_map[c] = LakeMark
    /\ \E c \in Cells(height, width) : lakes_map[c] = 0


----------------------------------------------------------------------------
(* Claim about the widths along a path when the mask is the water map of   *)
(* the field the path was traced on.                                       *)

\* The number of cells of the list pth that the mask wm marks as land.
LandLen(pth, wm) == Cardinality({j \in 1..Len(pth) : wm[pth[j]] = 0})

\* C30: in the script, where the water mask is generate_water of the field
\* the paths are traced on, the land cells of a flow path are its first
\* cells and the water cells the rest, and the width the walk has written
\* is 1 on each land cell and one more than on the cell before on each
\* water cell.
C30_WaterCellsFormASuffix ==
    pc = "walk" =>
        LET land == LandLen(path, water_map)
        IN  /\ water_map = generate_water(elevation_map, water_level,
                                          height, width)
            /\ \A j \in 1..Len(path) : water_map[path[j]] = 0 <=> j <= land
            /\ \A j \in 1..(path_i - 1) :
                  /\ j <= land => river_map[path[j]] = 1
                  /\ (j > land /\ j > 1) =>
                        river_map[path[j]] = river_map[path[j - 1]] + 1
                  /\ (j > land /\ j = 1) => river_map[path[j]] = 2
            /\ path_i > 1 => river_width = river_map[path[path_i - 1]]

\* The walk of a path is done that runs over land first and then over at
\* least two water cells.
C30_Witness ==
    /\ pc = "walk"
    /\ path_i > Len(path)
    /\ LandLen(path, water_map) >= 1
    /\ Len(path) - LandLen(path, water_map) >= 2

====
